---- MODULE Spec2Model ----
(***************************************************************************)
(* Token reduction engine of kreuzberg:                                    *)
(*   src/kreuzberg/_token_reduction/_reducer.py                            *)
(*   src/kreuzberg/_token_reduction/_stopwords.py                          *)
(*                                                                         *)
(* A Python str is a sequence of one-character strings, so that the        *)
(* regular expressions, strip(), split() and join() of the source are      *)
(* computed character by character.  None is the one-element sequence      *)
(* <<"<None>">>, a non-str argument is <<"<int>">>; neither can be a str.  *)
(* A text near the size limit holds blocks of a million 'a', each kept as  *)
(* one element that counts for a million characters in len().              *)
(***************************************************************************)
EXTENDS Integers, Sequences, FiniteSets, TLC

\* original: the text the caller starts with; text: the argument of the latest
\* call; result, pc, error: what that call returned or raised; stopwords: the
\* set that call filtered with; stop_words_json: the dataset file next to the
\* module; query, answer: the latest get_stopwords call on the default
\* manager and what it returned, answer_ref: which set object that was;
\* stats: the latest get_reduction_stats call; manager_call: the latest
\* has_language or supported_languages call on the default manager;
\* other_custom: the _custom_stopwords of a second StopwordsManager;
\* cache_use: when each key of the two lru_caches was stored and last used;
\* threads: the position and the locals of each thread inside its call;
\* file_reads: how often the dataset file was read; load_cache: the memo of
\* _load_default_stopwords; instances: the managers the default Ref holds
VARIABLES original, text, config, language, result, pc, error, calls,
          stopwords, manager_custom, stopwords_cache, custom_cache,
          stop_words_json, query, answer, stats,
          manager_call, other_custom, answer_ref, cache_use,
          threads, file_reads, load_cache, instances

vars == <<original, text, config, language, result, pc, error, calls,
          stopwords, manager_custom, stopwords_cache, custom_cache,
          stop_words_json, query, answer, stats,
          manager_call, other_custom, answer_ref, cache_use,
          threads, file_reads, load_cache, instances>>

\* the latest queries on the default manager
query_vars == <<query, answer, answer_ref, manager_call>>

\* the threads and what they share besides the manager and the lru_caches
thread_vars == <<threads, file_reads, load_cache, instances>>

(***************************************************************************)
(* Values and character classes                                            *)
(***************************************************************************)
None == <<"<None>">>
NotAStr == <<"<int>">>

\* the character U+0060, which a TLA+ string cannot hold
Backtick == "GRAVE"
Fence == <<Backtick, Backtick, Backtick>>

\* str.isspace(), which str.strip(), str.split() and the regex class \s use
Whitespace == {" ", "\t", "\n", "\r"}
\* a million 'a' in a row, held as one element of a text
AAA == "<'a' * 1000000>"
BlockLength == 1000000
LowerLetters == {"a", "b", "c", "e", "h", "n", "t", "x", AAA}
UpperLetters == {"A", "E", "H", "T"}
Digits == {"1", "3"}
\* the regex class \w
WordChars == LowerLetters \cup UpperLetters \cup Digits \cup {"_"}

lower_char(c) ==
    CASE c = "A" -> "a" [] c = "E" -> "e" [] c = "H" -> "h" [] c = "T" -> "t"
      [] OTHER -> c

\* len(s)
len(s) == Len(s) + (BlockLength - 1) * Cardinality({i \in 1..Len(s) : s[i] = AAA})

\* str.lower()
lower(s) == [i \in 1..Len(s) |-> lower_char(s[i])]

\* str.isupper(): at least one cased character and no lower-case one
isupper(s) ==
    /\ \E i \in 1..Len(s) : s[i] \in UpperLetters
    /\ \A i \in 1..Len(s) : s[i] \notin LowerLetters

\* any(char.isdigit() for char in word)
any_isdigit(s) == \E i \in 1..Len(s) : s[i] \in Digits

(***************************************************************************)
(* str methods                                                             *)
(***************************************************************************)
RECURSIVE lstrip(_)
lstrip(s) == IF s # <<>> /\ Head(s) \in Whitespace THEN lstrip(Tail(s)) ELSE s

RECURSIVE rstrip(_)
rstrip(s) ==
    IF s # <<>> /\ s[Len(s)] \in Whitespace
    THEN rstrip(SubSeq(s, 1, Len(s) - 1)) ELSE s

\* str.strip()
strip(s) == rstrip(lstrip(s))

\* str.startswith(p)
startswith(s, p) == Len(s) >= Len(p) /\ SubSeq(s, 1, Len(p)) = p

\* s[i:].startswith(p), i counted from 1
MatchAt(s, i, p) == i + Len(p) - 1 <= Len(s) /\ SubSeq(s, i, i + Len(p) - 1) = p

\* sep.join(parts)
RECURSIVE join(_, _)
join(sep, parts) ==
    IF parts = <<>> THEN <<>>
    ELSE IF Len(parts) = 1 THEN parts[1]
    ELSE parts[1] \o sep \o join(sep, Tail(parts))

\* str.split(sep) for a one-character sep: the pieces between the separators,
\* empty pieces included; "".split(sep) is [""]
RECURSIVE split_on(_, _, _)
split_on(s, sep, cur) ==
    IF s = <<>> THEN <<cur>>
    ELSE IF Head(s) = sep THEN <<cur>> \o split_on(Tail(s), sep, <<>>)
    ELSE split_on(Tail(s), sep, Append(cur, Head(s)))

split_lines(s) == split_on(s, "\n", <<>>)

\* str.split() without argument: the maximal runs of non-whitespace
RECURSIVE split_ws(_, _)
split_ws(s, cur) ==
    IF s = <<>> THEN (IF cur = <<>> THEN <<>> ELSE <<cur>>)
    ELSE IF Head(s) \in Whitespace
         THEN (IF cur = <<>> THEN <<>> ELSE <<cur>>) \o split_ws(Tail(s), <<>>)
         ELSE split_ws(Tail(s), Append(cur, Head(s)))

split(s) == split_ws(s, <<>>)

(***************************************************************************)
(* re.sub for the compiled patterns of the module                          *)
(***************************************************************************)
CommentOpen == <<"<", "!", "-", "-">>
CommentClose == <<"-", "-", ">">>

\* HTML_COMMENT_PATTERN.sub("", s): <!--.*?--> with DOTALL, leftmost match,
\* shortest body, matches do not overlap
RECURSIVE sub_html_comment(_, _)
sub_html_comment(s, i) ==
    IF i > Len(s) THEN <<>>
    ELSE LET closers == {j \in (i + 4)..Len(s) : MatchAt(s, j, CommentClose)}
         IN IF MatchAt(s, i, CommentOpen) /\ closers # {}
            THEN LET j == CHOOSE k \in closers : \A m \in closers : k <= m
                 IN sub_html_comment(s, j + 3)
            ELSE <<s[i]>> \o sub_html_comment(s, i + 1)

\* last index of the maximal run of characters of cls that starts at i
RECURSIVE run_end(_, _, _)
run_end(s, i, cls) ==
    IF i + 1 <= Len(s) /\ s[i + 1] \in cls THEN run_end(s, i + 1, cls) ELSE i

\* a variant that keeps the first character of the matched run
RECURSIVE sub_repeated_group_first(_, _, _)
sub_repeated_group_first(s, i, cls) ==
    IF i > Len(s) THEN <<>>
    ELSE IF s[i] \in cls /\ run_end(s, i, cls) >= i + 1
         THEN <<s[i]>> \o sub_repeated_group_first(s, run_end(s, i, cls) + 1, cls)
         ELSE <<s[i]>> \o sub_repeated_group_first(s, i + 1, cls)

\* a variant that matches two characters at a time, ([cls]){2}
RECURSIVE sub_repeated_group_pairs(_, _, _)
sub_repeated_group_pairs(s, i, cls) ==
    IF i > Len(s) THEN <<>>
    ELSE IF s[i] \in cls /\ i + 1 <= Len(s) /\ s[i + 1] \in cls
         THEN <<s[i + 1]>> \o sub_repeated_group_pairs(s, i + 2, cls)
         ELSE <<s[i]>> \o sub_repeated_group_pairs(s, i + 1, cls)

\* re.compile(r"([cls]){2,}").sub(r"\1", s): a repeated group holds its last
\* iteration, so \1 is the last character of the matched run
RECURSIVE sub_repeated_group(_, _, _)
sub_repeated_group(s, i, cls) ==
    IF i > Len(s) THEN <<>>
    ELSE IF s[i] \in cls /\ run_end(s, i, cls) >= i + 1
         THEN <<s[run_end(s, i, cls)]>> \o sub_repeated_group(s, run_end(s, i, cls) + 1, cls)
         ELSE <<s[i]>> \o sub_repeated_group(s, i + 1, cls)

\* re.compile(r"[cls]{least,}").sub(repl, s)
RECURSIVE sub_run(_, _, _, _, _)
sub_run(s, i, cls, least, repl) ==
    IF i > Len(s) THEN <<>>
    ELSE IF s[i] \in cls /\ run_end(s, i, cls) - i + 1 >= least
         THEN repl \o sub_run(s, run_end(s, i, cls) + 1, cls, least, repl)
         ELSE <<s[i]>> \o sub_run(s, i + 1, cls, least, repl)

TerminalPunctuation == {"!", "?", "."}

\* a variant that collapses the repeats of each character apart, ([!?.])\1+
sub_repeated_punctuation_per_character(s) ==
    sub_repeated_group(sub_repeated_group(sub_repeated_group(s, 1, {"!"}), 1, {"?"}), 1, {"."})

\* REPEATED_PUNCTUATION_PATTERNS[0].sub(r"\1", s)
sub_repeated_punctuation(s) == sub_repeated_group(s, 1, TerminalPunctuation)

\* a variant that collapses commas from three in a row on, (,){3,}
sub_repeated_commas_three_or_more(s) == sub_run(s, 1, {","}, 3, <<",">>)

\* REPEATED_PUNCTUATION_PATTERNS[1].sub(r"\1", s)
sub_repeated_commas(s) == sub_repeated_group(s, 1, {","})

\* a variant that collapses newlines from four in a row on, \n{4,}
sub_excessive_newlines_four_or_more(s) == sub_run(s, 1, {"\n"}, 4, <<"\n", "\n">>)

\* WHITESPACE_PATTERNS[0].sub("\n\n", s) and EXCESSIVE_NEWLINES_PATTERN.sub
sub_excessive_newlines(s) == sub_run(s, 1, {"\n"}, 3, <<"\n", "\n">>)

\* a variant that turns every run of spaces and tabs into two spaces
sub_spaces_tabs_doubling(s) == sub_run(s, 1, {" ", "\t"}, 1, <<" ", " ">>)

\* WHITESPACE_PATTERNS[1].sub(" ", s)
sub_spaces_tabs(s) == sub_run(s, 1, {" ", "\t"}, 1, <<" ">>)

normalize_newlines(s) == sub_excessive_newlines(s)

\* MARKDOWN_PATTERNS[0].match(line): ^\s*[-*+]\s
match_bullet(line) ==
    LET t == lstrip(line)
    IN Len(t) >= 2 /\ t[1] \in {"-", "*", "+"} /\ t[2] \in Whitespace

RECURSIVE skip_digits(_)
skip_digits(s) == IF s # <<>> /\ Head(s) \in Digits THEN skip_digits(Tail(s)) ELSE s

\* MARKDOWN_PATTERNS[1].match(line): ^\s*\d+\.\s
match_ordered(line) ==
    LET t == lstrip(line)
        u == skip_digits(t)
    IN Len(u) < Len(t) /\ Len(u) >= 2 /\ u[1] = "." /\ u[2] \in Whitespace

is_fence_line(line) == startswith(strip(line), Fence)

is_markdown_structural_line(line, in_code_block) ==
    \/ in_code_block
    \/ startswith(strip(line), <<"#">>)
    \/ \E i \in 1..Len(line) : line[i] = "|"
    \/ match_bullet(line)
    \/ match_ordered(line)

(***************************************************************************)
(* Light reduction                                                         *)
(***************************************************************************)
apply_light_reduction_plain(s) ==
    strip(sub_spaces_tabs(sub_excessive_newlines(
        sub_repeated_commas(sub_repeated_punctuation(sub_html_comment(s, 1))))))

\* a variant in which a fence line never closes a code block
RECURSIVE light_lines_never_closing(_, _, _)
light_lines_never_closing(lines, i, in_code_block) ==
    IF i > Len(lines) THEN <<>>
    ELSE LET line == lines[i]
         IN IF is_fence_line(line)
            THEN <<line>> \o light_lines_never_closing(lines, i + 1, TRUE)
            ELSE IF is_markdown_structural_line(line, in_code_block)
            THEN <<line>> \o light_lines_never_closing(lines, i + 1, in_code_block)
            ELSE IF strip(line) # <<>>
            THEN <<apply_light_reduction_plain(line)>>
                     \o light_lines_never_closing(lines, i + 1, in_code_block)
            ELSE <<line>> \o light_lines_never_closing(lines, i + 1, in_code_block)

\* the loop of _apply_light_reduction_markdown_aware over lines[i..]
RECURSIVE light_lines(_, _, _)
light_lines(lines, i, in_code_block) ==
    IF i > Len(lines) THEN <<>>
    ELSE LET line == lines[i]
         IN IF is_fence_line(line)
            THEN <<line>> \o light_lines(lines, i + 1, ~in_code_block)
            ELSE IF is_markdown_structural_line(line, in_code_block)
            THEN <<line>> \o light_lines(lines, i + 1, in_code_block)
            ELSE IF strip(line) # <<>>
            THEN <<apply_light_reduction_plain(line)>>
                     \o light_lines(lines, i + 1, in_code_block)
            ELSE <<line>> \o light_lines(lines, i + 1, in_code_block)

apply_light_reduction_markdown_aware(s) ==
    strip(normalize_newlines(join(<<"\n">>, light_lines(split_lines(s), 1, FALSE))))

apply_light_reduction(s, preserve_markdown) ==
    IF preserve_markdown THEN apply_light_reduction_markdown_aware(s)
    ELSE apply_light_reduction_plain(s)

(***************************************************************************)
(* Stopwords: the bundled dataset, the default manager, the two lru_caches *)
(***************************************************************************)
EN == <<"e", "n">>
NB == <<"n", "b">>
THE == <<"t", "h", "e">>
AN == <<"a", "n">>
HAN == <<"h", "a", "n">>
CAT == <<"c", "a", "t">>
T3E == <<"t", "3", "e">>

\* the bundled stop_words.json, language -> words: a two-language excerpt
\* with a word shorter than three characters
BundledStopWords == (EN :> {THE, AN}) @@ (NB :> {HAN, EN})

\* _load_default_stopwords not called yet
NotLoaded == [loaded |-> FALSE, data |-> <<>>]

\* the memo once it holds what the function returned
Loaded(data) == [loaded |-> TRUE, data |-> data]

\* _load_default_stopwords(): the content of the file, read once
load_default_stopwords == stop_words_json

\* a variant in which the custom set of a language replaces its built-in set
get_stopwords_custom_instead(custom, lang) ==
    IF lang \in DOMAIN custom THEN custom[lang]
    ELSE IF lang \in DOMAIN load_default_stopwords THEN load_default_stopwords[lang]
    ELSE {}

\* StopwordsManager.get_stopwords(language) of a manager whose
\* _custom_stopwords is custom
get_stopwords(custom, lang) ==
    (IF lang \in DOMAIN load_default_stopwords THEN load_default_stopwords[lang] ELSE {})
        \cup (IF lang \in DOMAIN custom THEN custom[lang] ELSE {})

\* the set object get_stopwords returns: result = set(), a new object
ResultObject == <<"result">>

\* which object get_stopwords(language) returns
get_stopwords_object(custom, lang) == ResultObject

\* a variant that knows every language
has_language_always(custom, lang) == TRUE

\* StopwordsManager.has_language(language)
has_language(custom, lang) ==
    lang \in DOMAIN load_default_stopwords \/ lang \in DOMAIN custom

\* ord(c) of the characters of language codes
ord(c) ==
    CASE c = "-" -> 45 [] c = "1" -> 49 [] c = "3" -> 51
      [] c = "A" -> 65 [] c = "E" -> 69 [] c = "H" -> 72 [] c = "T" -> 84
      [] c = "a" -> 97 [] c = "b" -> 98 [] c = "c" -> 99 [] c = "e" -> 101
      [] c = "h" -> 104 [] c = "n" -> 110 [] c = "t" -> 116 [] c = "x" -> 120

\* a < b of two str: the first differing character decides, a proper prefix
\* is smaller
RECURSIVE str_lt(_, _)
str_lt(a, b) ==
    IF b = <<>> THEN FALSE
    ELSE IF a = <<>> THEN TRUE
    ELSE IF Head(a) = Head(b) THEN str_lt(Tail(a), Tail(b))
    ELSE ord(Head(a)) < ord(Head(b))

\* sorted(strings) of a set of str
RECURSIVE sorted(_)
sorted(strings) ==
    IF strings = {} THEN <<>>
    ELSE LET least == CHOOSE a \in strings : \A b \in strings \ {a} : str_lt(a, b)
         IN <<least>> \o sorted(strings \ {least})

\* a variant that lists the built-in languages only
supported_languages_builtin_only(custom) == sorted(DOMAIN load_default_stopwords)

\* StopwordsManager.supported_languages()
supported_languages(custom) ==
    sorted(DOMAIN load_default_stopwords \cup DOMAIN custom)

\* a variant that replaces the custom set of the language by the new words
add_custom_stopwords_replacing(custom, lang, words) ==
    LET created == IF lang \in DOMAIN custom THEN custom ELSE (lang :> {}) @@ custom
    IN [created EXCEPT ![lang] = words]

\* StopwordsManager.add_custom_stopwords(language, words): the new
\* _custom_stopwords
add_custom_stopwords(custom, lang, words) ==
    LET created == IF lang \in DOMAIN custom THEN custom ELSE (lang :> {}) @@ custom
    IN [created EXCEPT ![lang] = @ \cup words]

STOPWORDS_CACHE_MAXSIZE == 128
CUSTOM_CACHE_MAXSIZE == 64

\* the keys a cache holds, in the order they were stored and in the order
\* they were last asked for; no key of either lru_cache stored yet
NoUse ==
    [language |-> [stored |-> <<>>, used |-> <<>>],
     custom |-> [stored |-> <<>>, used |-> <<>>]]

\* functools.lru_cache: the entries, least recently used first
cache_index(cache, key) ==
    IF \E i \in 1..Len(cache) : cache[i].key = key
    THEN CHOOSE i \in 1..Len(cache) : cache[i].key = key
    ELSE 0

\* a variant in which a hit leaves the order of the entries alone
cache_touch_in_place(cache, i) == cache

\* a hit makes the entry the most recently used
cache_touch(cache, i) ==
    SubSeq(cache, 1, i - 1) \o SubSeq(cache, i + 1, Len(cache)) \o <<cache[i]>>

\* a miss stores the computed value, dropping the least recently used entry
\* of a full cache
cache_store(cache, key, value, maxsize) ==
    LET kept == IF Len(cache) >= maxsize THEN Tail(cache) ELSE cache
    IN Append(kept, [key |-> key, value |-> value])

\* _get_cached_stopwords(language): the value and the cache afterwards
get_cached_stopwords(lang, custom, cache) ==
    LET i == cache_index(cache, lang)
    IN IF i > 0
       THEN [value |-> cache[i].value, cache |-> cache_touch(cache, i)]
       ELSE LET v == get_stopwords(custom, lang)
            IN [value |-> v, cache |-> cache_store(cache, lang, v, STOPWORDS_CACHE_MAXSIZE)]

\* _get_cached_custom_stopwords(language, custom_words_tuple): the value and
\* both caches afterwards; tuple(sorted(words)) is keyed by the set of words
get_cached_custom_stopwords(lang, words, custom, cache, ccache) ==
    LET i == cache_index(ccache, <<lang, words>>)
    IN IF i > 0
       THEN [value |-> ccache[i].value, cache |-> cache,
             ccache |-> cache_touch(ccache, i)]
       ELSE LET base == get_cached_stopwords(lang, custom, cache)
                v == base.value \cup words
            IN [value |-> v, cache |-> base.cache,
                ccache |-> cache_store(ccache, <<lang, words>>, v, CUSTOM_CACHE_MAXSIZE)]

(***************************************************************************)
(* Stopword reduction                                                      *)
(***************************************************************************)
\* WORD_CLEAN_PATTERN.sub("", word.lower())
clean_word(word) == SelectSeq(lower(word), LAMBDA c : c \in WordChars)

\* a variant without the test for upper-case words
keeps_word_no_isupper(word, sw) ==
    \/ clean_word(word) \notin sw
    \/ len(clean_word(word)) <= 2
    \/ any_isdigit(word)

\* a variant that keeps only the stopwords shorter than two characters
keeps_word_shorter(word, sw) ==
    \/ clean_word(word) \notin sw
    \/ len(clean_word(word)) < 2
    \/ isupper(word)
    \/ any_isdigit(word)

\* the condition under which _apply_stopword_reduction_plain keeps a word
keeps_word(word, sw) ==
    \/ clean_word(word) \notin sw
    \/ len(clean_word(word)) <= 2
    \/ isupper(word)
    \/ any_isdigit(word)

apply_stopword_reduction_plain(s, sw) ==
    join(<<" ">>, SelectSeq(split(s), LAMBDA word : keeps_word(word, sw)))

\* the loop of _apply_stopword_reduction_markdown_aware over lines[i..]
RECURSIVE stopword_lines(_, _, _, _)
stopword_lines(lines, i, in_code_block, sw) ==
    IF i > Len(lines) THEN <<>>
    ELSE LET line == lines[i]
         IN IF is_fence_line(line)
            THEN <<line>> \o stopword_lines(lines, i + 1, ~in_code_block, sw)
            ELSE IF is_markdown_structural_line(line, in_code_block)
            THEN <<line>> \o stopword_lines(lines, i + 1, in_code_block, sw)
            ELSE IF strip(line) # <<>>
            THEN <<apply_stopword_reduction_plain(line, sw)>>
                     \o stopword_lines(lines, i + 1, in_code_block, sw)
            ELSE <<line>> \o stopword_lines(lines, i + 1, in_code_block, sw)

apply_stopword_reduction_markdown_aware(s, sw) ==
    strip(normalize_newlines(join(<<"\n">>, stopword_lines(split_lines(s), 1, FALSE, sw))))

\* a variant in which the hint of the config goes before the argument
effective_language_hint_first(cfg, lang) ==
    IF cfg.language_hint # None /\ cfg.language_hint # <<>> THEN cfg.language_hint
    ELSE IF lang # None /\ lang # <<>> THEN lang
    ELSE EN

\* language or config.language_hint or "en": None and "" are falsy
effective_language(cfg, lang) ==
    IF lang # None /\ lang # <<>> THEN lang
    ELSE IF cfg.language_hint # None /\ cfg.language_hint # <<>> THEN cfg.language_hint
    ELSE EN

\* a variant that registers the custom words of the config with the default
\* manager
apply_moderate_reduction_registering(s, cfg, lang, custom, cache, ccache) ==
    LET light == apply_light_reduction(s, cfg.preserve_markdown)
        lang0 == effective_language(cfg, lang)
        lang1 == IF has_language(custom, lang0) THEN lang0 ELSE EN
    IN IF ~has_language(custom, lang1)
       THEN [value |-> light, stopwords |-> {}, manager |-> custom,
             cache |-> cache, ccache |-> ccache]
       ELSE LET registered == IF lang1 \in DOMAIN cfg.custom_stopwords
                              THEN add_custom_stopwords(custom, lang1,
                                                        cfg.custom_stopwords[lang1])
                              ELSE custom
                got == get_cached_stopwords(lang1, registered, cache)
            IN [value |-> IF cfg.preserve_markdown
                          THEN apply_stopword_reduction_markdown_aware(light, got.value)
                          ELSE apply_stopword_reduction_plain(light, got.value),
                stopwords |-> got.value, manager |-> registered,
                cache |-> got.cache, ccache |-> ccache]

\* _apply_moderate_reduction: the text returned, the stopword set used (empty
\* when none was looked up), the _custom_stopwords of the default manager and
\* the caches afterwards
apply_moderate_reduction(s, cfg, lang, custom, cache, ccache) ==
    LET light == apply_light_reduction(s, cfg.preserve_markdown)
        lang0 == effective_language(cfg, lang)
        lang1 == IF has_language(custom, lang0) THEN lang0 ELSE EN
    IN IF ~has_language(custom, lang1)
       THEN [value |-> light, stopwords |-> {}, manager |-> custom,
             cache |-> cache, ccache |-> ccache]
       ELSE LET got == IF lang1 \in DOMAIN cfg.custom_stopwords
                       THEN get_cached_custom_stopwords(
                                lang1, cfg.custom_stopwords[lang1], custom, cache, ccache)
                       ELSE [ccache |-> ccache] @@ get_cached_stopwords(lang1, custom, cache)
            IN [value |-> IF cfg.preserve_markdown
                          THEN apply_stopword_reduction_markdown_aware(light, got.value)
                          ELSE apply_stopword_reduction_plain(light, got.value),
                stopwords |-> got.value, manager |-> custom,
                cache |-> got.cache, ccache |-> got.ccache]

(***************************************************************************)
(* reduce_tokens                                                           *)
(***************************************************************************)
MAX_TEXT_LENGTH == 10000000

NoneConfig ==
    [mode |-> "<None>", preserve_markdown |-> FALSE, language_hint |-> None,
     custom_stopwords |-> <<>>]

LanguageChars == LowerLetters \cup UpperLetters \cup Digits \cup {"-"}

\* re.match(r"^[a-zA-Z0-9-]+$", language): $ also matches before a newline
\* that ends the string
match_language_code(lang) ==
    LET body == IF lang # <<>> /\ lang[Len(lang)] = "\n"
                THEN SubSeq(lang, 1, Len(lang) - 1) ELSE lang
    IN body # <<>> /\ \A i \in 1..Len(body) : body[i] \in LanguageChars

\* a variant whose size limit is exclusive: len(text) >= 10_000_000 is too large
validation_error_limit_exclusive(s, cfg, lang) ==
    IF cfg = NoneConfig THEN "Config cannot be None"
    ELSE IF s = None THEN "Text cannot be None"
    ELSE IF s = NotAStr THEN "Text must be a string"
    ELSE IF lang = NotAStr THEN "Language must be a string or None"
    ELSE IF lang # None /\ strip(lang) = <<>> THEN "Language cannot be empty or whitespace-only"
    ELSE IF len(s) >= MAX_TEXT_LENGTH THEN "Text too large"
    ELSE IF lang # None /\ ~match_language_code(lang) THEN "Invalid language code format"
    ELSE ""

\* a variant that tests the size of the text before it looks at the language
validation_error_size_before_language(s, cfg, lang) ==
    IF cfg = NoneConfig THEN "Config cannot be None"
    ELSE IF s = None THEN "Text cannot be None"
    ELSE IF s = NotAStr THEN "Text must be a string"
    ELSE IF len(s) > MAX_TEXT_LENGTH THEN "Text too large"
    ELSE IF lang = NotAStr THEN "Language must be a string or None"
    ELSE IF lang # None /\ strip(lang) = <<>> THEN "Language cannot be empty or whitespace-only"
    ELSE IF lang # None /\ ~match_language_code(lang) THEN "Invalid language code format"
    ELSE ""

\* the ValidationError reduce_tokens raises, "" when it raises none
validation_error(s, cfg, lang) ==
    IF cfg = NoneConfig THEN "Config cannot be None"
    ELSE IF s = None THEN "Text cannot be None"
    ELSE IF s = NotAStr THEN "Text must be a string"
    ELSE IF lang = NotAStr THEN "Language must be a string or None"
    ELSE IF lang # None /\ strip(lang) = <<>> THEN "Language cannot be empty or whitespace-only"
    ELSE IF len(s) > MAX_TEXT_LENGTH THEN "Text too large"
    ELSE IF lang # None /\ ~match_language_code(lang) THEN "Invalid language code format"
    ELSE ""

\* what a call that returns text leaves unchanged
Returned(value, custom, cache, ccache) ==
    [pc |-> "returned", error |-> "", value |-> value, stopwords |-> {},
     manager |-> custom, cache |-> cache, ccache |-> ccache]

\* a variant that tests for blank text before it tests for mode "off"
dispatch_mode_blank_first(s, cfg, lang, custom, cache, ccache) ==
    IF strip(s) = <<>> THEN Returned(<<>>, custom, cache, ccache)
    ELSE IF cfg.mode = "light"
    THEN Returned(apply_light_reduction(s, cfg.preserve_markdown), custom, cache, ccache)
    ELSE IF cfg.mode = "moderate"
    THEN [pc |-> "returned", error |-> ""]
             @@ apply_moderate_reduction(s, cfg, lang, custom, cache, ccache)
    ELSE Returned(s, custom, cache, ccache)

\* a variant that tests text for emptiness where the source tests text.strip()
dispatch_mode_empty_only(s, cfg, lang, custom, cache, ccache) ==
    IF cfg.mode = "off" THEN Returned(s, custom, cache, ccache)
    ELSE IF s = <<>> THEN Returned(<<>>, custom, cache, ccache)
    ELSE IF cfg.mode = "light"
    THEN Returned(apply_light_reduction(s, cfg.preserve_markdown), custom, cache, ccache)
    ELSE IF cfg.mode = "moderate"
    THEN [pc |-> "returned", error |-> ""]
             @@ apply_moderate_reduction(s, cfg, lang, custom, cache, ccache)
    ELSE Returned(s, custom, cache, ccache)

\* a variant whose unrecognized modes get the light reduction
dispatch_mode_default_light(s, cfg, lang, custom, cache, ccache) ==
    IF cfg.mode = "off" THEN Returned(s, custom, cache, ccache)
    ELSE IF strip(s) = <<>> THEN Returned(<<>>, custom, cache, ccache)
    ELSE IF cfg.mode = "moderate"
    THEN [pc |-> "returned", error |-> ""]
             @@ apply_moderate_reduction(s, cfg, lang, custom, cache, ccache)
    ELSE Returned(apply_light_reduction(s, cfg.preserve_markdown), custom, cache, ccache)

\* reduce_tokens once its arguments are validated: the dispatch on config.mode
dispatch_mode(s, cfg, lang, custom, cache, ccache) ==
    IF cfg.mode = "off" THEN Returned(s, custom, cache, ccache)
    ELSE IF strip(s) = <<>> THEN Returned(<<>>, custom, cache, ccache)
    ELSE IF cfg.mode = "light"
    THEN Returned(apply_light_reduction(s, cfg.preserve_markdown), custom, cache, ccache)
    ELSE IF cfg.mode = "moderate"
    THEN [pc |-> "returned", error |-> ""]
             @@ apply_moderate_reduction(s, cfg, lang, custom, cache, ccache)
    ELSE Returned(s, custom, cache, ccache)

\* reduce_tokens(text, config=cfg, language=lang) on the default manager:
\* what it returns or raises, the stopword set it filtered with, and the
\* _custom_stopwords of the manager and the caches afterwards
reduce_tokens(s, cfg, lang, custom, cache, ccache) ==
    LET err == validation_error(s, cfg, lang)
    IN IF err # ""
       THEN [pc |-> "raised", error |-> err, value |-> None, stopwords |-> {},
             manager |-> custom, cache |-> cache, ccache |-> ccache]
       ELSE dispatch_mode(s, cfg, lang, custom, cache, ccache)

(***************************************************************************)
(* get_reduction_stats                                                     *)
(***************************************************************************)
\* no get_reduction_stats call yet
NoStats == [pc |-> "idle"]

\* a variant that divides by the reduced count
reduction_ratio_by_reduced(original_count, reduced_count) ==
    IF reduced_count > 0
    THEN [num |-> original_count - reduced_count, den |-> reduced_count]
    ELSE [num |-> 0, den |-> 1]

\* (original - reduced) / original if original > 0 else 0.0, as a fraction
reduction_ratio(original_count, reduced_count) ==
    IF original_count > 0
    THEN [num |-> original_count - reduced_count, den |-> original_count]
    ELSE [num |-> 0, den |-> 1]

\* the ValidationError get_reduction_stats raises, "" when it raises none
stats_validation_error(o, r) ==
    IF o = None THEN "Original text cannot be None"
    ELSE IF r = None THEN "Reduced text cannot be None"
    ELSE IF o = NotAStr THEN "Original text must be a string"
    ELSE IF r = NotAStr THEN "Reduced text must be a string"
    ELSE ""

\* get_reduction_stats(original, reduced): the call with what it raised or
\* the ReductionStats it returned
get_reduction_stats(o, r) ==
    IF stats_validation_error(o, r) # ""
    THEN [pc |-> "raised", error |-> stats_validation_error(o, r), original |-> o, reduced |-> r]
    ELSE [pc |-> "returned", error |-> "", original |-> o, reduced |-> r,
          character_reduction_ratio |-> reduction_ratio(len(o), len(r)),
          token_reduction_ratio |-> reduction_ratio(Len(split(o)), Len(split(r))),
          original_characters |-> len(o),
          reduced_characters |-> len(r),
          original_tokens |-> Len(split(o)),
          reduced_tokens |-> Len(split(r))]

(***************************************************************************)
(* The calls: state machine                                                *)
(***************************************************************************)
\* how many times a caller passes the text through reduce_tokens
MaxCalls == 2

\* the outcome of one call, stored
Store(r) ==
    /\ result' = r.value
    /\ pc' = r.pc
    /\ error' = r.error
    /\ stopwords' = r.stopwords
    /\ manager_custom' = r.manager
    /\ stopwords_cache' = r.cache
    /\ custom_cache' = r.ccache
    /\ calls' = calls + 1

\* the first call: reduce_tokens(text, config=config, language=language)
ReduceTokens ==
    /\ pc = "idle"
    /\ Store(reduce_tokens(text, config, language, manager_custom,
                           stopwords_cache, custom_cache))
    /\ UNCHANGED <<original, text, config, language, stop_words_json, stats,
                   other_custom, cache_use, query_vars, thread_vars>>

\* the caller reduces the returned text again, with the same config and language
ReduceAgain ==
    /\ pc = "returned"
    /\ calls < MaxCalls
    /\ text' = result
    /\ Store(reduce_tokens(result, config, language, manager_custom,
                           stopwords_cache, custom_cache))
    /\ UNCHANGED <<original, config, language, stop_words_json, stats,
                   other_custom, cache_use, query_vars, thread_vars>>

\* a variant in which the instances share one _custom_stopwords dict
add_custom_stopwords_on_shared_dict(objects, self, lang, words) ==
    [objects EXCEPT !["default"] = add_custom_stopwords(@, lang, words),
                    !["other"] = add_custom_stopwords(@, lang, words)]

\* self.add_custom_stopwords(lang, words) among the objects that hold
\* stopwords: the _custom_stopwords of each manager and the built-in data.
\* Each instance has a dict of its own (__init__) with sets of its own
add_custom_stopwords_on(objects, self, lang, words) ==
    [objects EXCEPT ![self] = add_custom_stopwords(@, lang, words)]

\* manager.add_custom_stopwords(lang, words), manager self being "default"
\* (get_default_stopwords_manager()) or "other"
AddCustomStopwordsOn(self, lang, words) ==
    LET after == add_custom_stopwords_on(
                     [default |-> manager_custom, other |-> other_custom,
                      builtin |-> stop_words_json], self, lang, words)
    IN /\ manager_custom' = after.default
       /\ other_custom' = after.other
       /\ stop_words_json' = after.builtin
       /\ UNCHANGED <<original, text, config, language, result, pc, error, calls,
                      stopwords, stopwords_cache, custom_cache, stats, cache_use,
                      query_vars, thread_vars>>

\* get_default_stopwords_manager().add_custom_stopwords(lang, words)
AddCustomStopwords(lang, words) == AddCustomStopwordsOn("default", lang, words)

\* get_reduction_stats(o, r)
GetReductionStats(o, r) ==
    /\ stats' = get_reduction_stats(o, r)
    /\ UNCHANGED <<original, text, config, language, result, pc, error, calls, stopwords,
                   manager_custom, stopwords_cache, custom_cache, stop_words_json,
                   other_custom, cache_use, query_vars, thread_vars>>

\* key has been asked of a cache that holds the entries cache afterwards:
\* the order in which its keys were stored and last asked for
record_use(use, key, cache) ==
    LET held(k) == cache_index(cache, k) > 0
        stored == IF \E i \in 1..Len(use.stored) : use.stored[i] = key
                  THEN use.stored ELSE Append(use.stored, key)
        used == Append(SelectSeq(use.used, LAMBDA k : k # key), key)
    IN [stored |-> SelectSeq(stored, held), used |-> SelectSeq(used, held)]

\* _get_cached_stopwords(lang), called directly
GetCachedStopwords(lang) ==
    /\ LET got == get_cached_stopwords(lang, manager_custom, stopwords_cache)
       IN /\ stopwords_cache' = got.cache
          /\ cache_use' = [cache_use EXCEPT !.language = record_use(@, lang, got.cache)]
    /\ UNCHANGED <<original, text, config, language, result, pc, error, calls, stopwords,
                   manager_custom, custom_cache, stop_words_json, stats, other_custom,
                   query_vars, thread_vars>>

\* _get_cached_custom_stopwords(lang, tuple(sorted(words))), called directly
GetCachedCustomStopwords(lang, words) ==
    /\ LET missed == cache_index(custom_cache, <<lang, words>>) = 0
           got == get_cached_custom_stopwords(lang, words, manager_custom,
                                              stopwords_cache, custom_cache)
       IN /\ stopwords_cache' = got.cache
          /\ custom_cache' = got.ccache
          /\ cache_use' =
                 [language |-> IF missed THEN record_use(cache_use.language, lang, got.cache)
                               ELSE cache_use.language,
                  custom |-> record_use(cache_use.custom, <<lang, words>>, got.ccache)]
    /\ UNCHANGED <<original, text, config, language, result, pc, error, calls, stopwords,
                   manager_custom, stop_words_json, stats, other_custom,
                   query_vars, thread_vars>>

\* no has_language or supported_languages call yet
NoCall == [op |-> "none", language |-> None, known |-> FALSE, languages |-> <<>>]

\* get_default_stopwords_manager().has_language(lang)
HasLanguage(lang) ==
    /\ manager_call' = [op |-> "has_language", language |-> lang,
                        known |-> has_language(manager_custom, lang), languages |-> <<>>]
    /\ UNCHANGED <<original, text, config, language, result, pc, error, calls, stopwords,
                   manager_custom, stopwords_cache, custom_cache, stop_words_json, stats,
                   query, answer, answer_ref, other_custom, cache_use, thread_vars>>

\* get_default_stopwords_manager().supported_languages()
SupportedLanguages ==
    /\ manager_call' = [op |-> "supported_languages", language |-> None, known |-> FALSE,
                        languages |-> supported_languages(manager_custom)]
    /\ UNCHANGED <<original, text, config, language, result, pc, error, calls, stopwords,
                   manager_custom, stopwords_cache, custom_cache, stop_words_json, stats,
                   query, answer, answer_ref, other_custom, cache_use, thread_vars>>

\* get_default_stopwords_manager().get_stopwords(lang)
GetStopwords(lang) ==
    /\ query' = lang
    /\ answer' = get_stopwords(manager_custom, lang)
    /\ answer_ref' = get_stopwords_object(manager_custom, lang)
    /\ UNCHANGED <<original, text, config, language, result, pc, error, calls, stopwords,
                   manager_custom, stopwords_cache, custom_cache, stop_words_json, stats,
                   manager_call, other_custom, cache_use, thread_vars>>

(***************************************************************************)
(* Threads: reduce_tokens calls that interleave where they touch the memo   *)
(* of _load_default_stopwords, the default manager Ref and the lru_cache    *)
(***************************************************************************)
\* what the call and the caches leave alone while threads run
sequential_vars ==
    <<original, text, config, language, result, pc, error, calls, stopwords,
      manager_custom, custom_cache, stop_words_json, stats, other_custom, cache_use,
      query_vars>>

\* a thread about to call reduce_tokens(txt, config=config, language=language)
ThreadIdle(txt) ==
    [pc |-> "idle", text |-> txt, light |-> <<>>, lang |-> None, manager |-> 0,
     data |-> NotLoaded, words |-> {}, result |-> None]

\* Ref.get() of the default manager: constructed lazily on first access by
\* the factory and reused thereafter; made is the manager the factory would
\* construct for this caller
ref_get(held, made) == IF held = <<>> THEN <<made>> ELSE held

\* a variant in which a miss puts an empty set in the cache while the value
\* is computed
cache_during_miss_placeholder(cache, key) == Append(cache, [key |-> key, value |-> {}])

\* functools.lru_cache on a miss, while the function runs: nothing is stored
\* until the function has returned
cache_during_miss(cache, key) == cache

\* functools.lru_cache after the function has returned: the value is stored
\* unless another call stored the key meanwhile
cache_store_computed(cache, key, value, maxsize) ==
    IF cache_index(cache, key) > 0 THEN cache ELSE cache_store(cache, key, value, maxsize)

\* thread t gets as far as its first access to shared state: validation, the
\* dispatch on the mode and the light reduction; calls that need no stopword
\* return here
Call(t) ==
    /\ threads[t].pc = "idle"
    /\ LET th == threads[t]
       IN IF validation_error(th.text, config, language) # ""
               \/ config.mode # "moderate" \/ strip(th.text) = <<>>
          THEN threads' = [threads EXCEPT ![t] =
                   [th EXCEPT !.pc = "done",
                       !.result = reduce_tokens(th.text, config, language, manager_custom,
                                                stopwords_cache, custom_cache).value]]
          ELSE threads' = [threads EXCEPT ![t] =
                   [th EXCEPT !.pc = "get_manager",
                       !.light = apply_light_reduction(th.text, config.preserve_markdown),
                       !.lang = effective_language(config, language)]]
    /\ UNCHANGED <<sequential_vars, stopwords_cache, file_reads, load_cache, instances>>

\* manager = get_default_stopwords_manager()
RefGet(t) ==
    /\ threads[t].pc = "get_manager"
    /\ instances' = ref_get(instances, t)
    /\ threads' = [threads EXCEPT ![t] =
           [@ EXCEPT !.pc = "load_lookup", !.manager = Head(instances')]]
    /\ UNCHANGED <<sequential_vars, stopwords_cache, file_reads, load_cache>>

\* manager.has_language(lang) calls _load_default_stopwords(): functools.cache
\* looks the memo up; on a miss the function body runs
LoadLookup(t) ==
    /\ threads[t].pc = "load_lookup"
    /\ threads' = [threads EXCEPT ![t] =
           IF load_cache.loaded
           THEN [@ EXCEPT !.pc = "choose_language", !.data = load_cache]
           ELSE [@ EXCEPT !.pc = "read_file"]]
    /\ UNCHANGED <<sequential_vars, stopwords_cache, file_reads, load_cache, instances>>

\* the body of _load_default_stopwords: the file is read and decoded
ReadFile(t) ==
    /\ threads[t].pc = "read_file"
    /\ file_reads' = file_reads + 1
    /\ threads' = [threads EXCEPT ![t] =
           [@ EXCEPT !.pc = "store_load", !.data = Loaded(stop_words_json)]]
    /\ UNCHANGED <<sequential_vars, stopwords_cache, load_cache, instances>>

\* functools.cache stores what the body returned
StoreLoad(t) ==
    /\ threads[t].pc = "store_load"
    /\ load_cache' = threads[t].data
    /\ threads' = [threads EXCEPT ![t] = [@ EXCEPT !.pc = "choose_language"]]
    /\ UNCHANGED <<sequential_vars, stopwords_cache, file_reads, instances>>

\* the two has_language tests: an unknown language becomes "en", and when
\* that is unknown too the light-reduced text is returned
ChooseLanguage(t) ==
    /\ threads[t].pc = "choose_language"
    /\ LET th == threads[t]
           lang1 == IF has_language(manager_custom, th.lang) THEN th.lang ELSE EN
       IN threads' = [threads EXCEPT ![t] =
              IF ~has_language(manager_custom, lang1)
              THEN [th EXCEPT !.pc = "done", !.result = th.light]
              ELSE [th EXCEPT !.pc = "cache_lookup", !.lang = lang1]]
    /\ UNCHANGED <<sequential_vars, stopwords_cache, file_reads, load_cache, instances>>

\* _get_cached_stopwords(lang): the lru_cache looks the key up
CacheLookup(t) ==
    /\ threads[t].pc = "cache_lookup"
    /\ LET th == threads[t]
           i == cache_index(stopwords_cache, th.lang)
       IN IF i > 0
          THEN /\ threads' = [threads EXCEPT ![t] =
                      [th EXCEPT !.pc = "filter", !.words = stopwords_cache[i].value]]
               /\ stopwords_cache' = cache_touch(stopwords_cache, i)
          ELSE /\ threads' = [threads EXCEPT ![t] = [th EXCEPT !.pc = "compute"]]
               /\ stopwords_cache' = cache_during_miss(stopwords_cache, th.lang)
    /\ UNCHANGED <<sequential_vars, file_reads, load_cache, instances>>

\* the body of _get_cached_stopwords:
\* get_default_stopwords_manager().get_stopwords(lang); by now the manager
\* exists and the dataset is memoized
Compute(t) ==
    /\ threads[t].pc = "compute"
    /\ threads' = [threads EXCEPT ![t] =
           [@ EXCEPT !.pc = "cache_store",
                     !.words = get_stopwords(manager_custom, threads[t].lang)]]
    /\ UNCHANGED <<sequential_vars, stopwords_cache, file_reads, load_cache, instances>>

\* the lru_cache stores what the body returned
CacheStore(t) ==
    /\ threads[t].pc = "cache_store"
    /\ stopwords_cache' = cache_store_computed(stopwords_cache, threads[t].lang,
                                               threads[t].words, STOPWORDS_CACHE_MAXSIZE)
    /\ threads' = [threads EXCEPT ![t] = [@ EXCEPT !.pc = "filter"]]
    /\ UNCHANGED <<sequential_vars, file_reads, load_cache, instances>>

\* the stopword reduction of the light-reduced text; the call returns
Finish(t) ==
    /\ threads[t].pc = "filter"
    /\ LET th == threads[t]
       IN threads' = [threads EXCEPT ![t] =
              [th EXCEPT !.pc = "done",
                  !.result = IF config.preserve_markdown
                             THEN apply_stopword_reduction_markdown_aware(th.light, th.words)
                             ELSE apply_stopword_reduction_plain(th.light, th.words)]]
    /\ UNCHANGED <<sequential_vars, stopwords_cache, file_reads, load_cache, instances>>

(***************************************************************************)
(* Inputs                                                                  *)
(***************************************************************************)
RECURSIVE Flatten(_)
Flatten(parts) == IF parts = <<>> THEN <<>> ELSE Head(parts) \o Flatten(Tail(parts))

\* the texts made of at most n of the given pieces
Concats(pieces, n) == {Flatten(p) : p \in UNION {[1..k -> pieces] : k \in 0..n}}

\* the texts of at most n, and at least one, of the given lines
Joined(lines, n) == {join(<<"\n">>, p) : p \in UNION {[1..k -> lines] : k \in 1..n}}

Config(mode, preserve_markdown, language_hint, custom_stopwords) ==
    [mode |-> mode, preserve_markdown |-> preserve_markdown,
     language_hint |-> language_hint, custom_stopwords |-> custom_stopwords]

\* before the first call: a fresh default manager, empty caches, the dataset
\* file one of datasets
InitShared(texts, configs, languages, datasets) ==
    /\ original \in texts
    /\ text = original
    /\ config \in configs
    /\ language \in languages
    /\ result = None
    /\ pc = "idle"
    /\ error = ""
    /\ calls = 0
    /\ stopwords = {}
    /\ manager_custom = <<>>
    /\ stopwords_cache = <<>>
    /\ custom_cache = <<>>
    /\ stop_words_json \in datasets
    /\ query = None
    /\ answer = {}
    /\ stats = NoStats
    /\ manager_call = NoCall
    /\ other_custom = <<>>
    /\ answer_ref = ResultObject
    /\ cache_use = NoUse
    /\ file_reads = 0
    /\ load_cache = NotLoaded
    /\ instances = <<>>

\* one caller, no threads
InitWithData(texts, configs, languages, datasets) ==
    /\ InitShared(texts, configs, languages, datasets)
    /\ threads = <<>>

\* with the bundled dataset
InitWith(texts, configs, languages) ==
    InitWithData(texts, configs, languages, {BundledStopWords})

Next == ReduceTokens \/ ReduceAgain

\* every mode, valid and invalid arguments
MaxPieces == 3
Pieces == {<<" ">>, <<"\n">>, <<"!">>, THE}
Modes == {"off", "light", "moderate", "aggressive"}
Configs ==
    {Config(m, pm, h, c) : m \in Modes, pm \in BOOLEAN, h \in {None, NB},
                           c \in {<<>>, NB :> {THE}}}
Init ==
    InitWith(Concats(Pieces, MaxPieces) \cup {None, NotAStr},
             Configs \cup {NoneConfig},
             {None, NotAStr, EN, <<" ">>, <<"e", "/">>})

Spec == Init /\ [][Next]_vars

\* light reduction of punctuation: every text over the punctuation characters
MaxPunctLen == 4
PunctChars == {"!", "?", ".", ",", "a", " "}
InitPunct ==
    InitWith(UNION {[1..k -> PunctChars] : k \in 0..MaxPunctLen},
             {Config("light", pm, None, <<>>) : pm \in BOOLEAN},
             {None})

SpecPunct == InitPunct /\ [][Next]_vars

\* light reduction applied twice: texts of markup, punctuation and whitespace
MaxLightPieces == 3
LightPieces ==
    {CommentOpen, <<"<", "!">>, <<"!", "-", "-">>, CommentClose,
     <<" ">>, <<"\n">>, <<"a">>, <<"!">>, <<",">>, Fence, <<"-">>, <<"#">>, <<"1", ".">>}
MaxLightLines == 3
LightLines ==
    {<<>>, <<" ">>, <<"a", " ", " ", "a">>, <<"!", "!">>, <<" ", "-", " ">>,
     <<" ", "1", ".", " ">>, Fence, <<"#", " ">>}
InitLight ==
    InitWith(Concats(LightPieces, MaxLightPieces) \cup Joined(LightLines, MaxLightLines),
             {Config("light", pm, None, <<>>) : pm \in BOOLEAN},
             {None})

SpecLight == InitLight /\ [][Next]_vars

\* markdown-aware reduction: texts of fences, structural lines, prose lines
\* and blank lines
MaxMarkdownLines == 4
MarkdownLines ==
    {<<>>, Fence, <<" ", "#", "a">>, <<"t", "h", "e", " ", " ", "a">>, <<"a", "|", " ">>}
InitMarkdown ==
    InitWith(Joined(MarkdownLines, MaxMarkdownLines),
             {Config(m, TRUE, None, <<>>) : m \in {"off", "light", "moderate"}},
             {None, EN})

SpecMarkdown == InitMarkdown /\ [][Next]_vars

\* moderate reduction: prose of stopwords, protected words and other words,
\* with words added to the default manager before and between the calls
MaxStopwordPieces == 3
StopwordPieces == {THE, <<"T", "H", "E">>, T3E, CAT, AN, <<",">>, <<" ">>}
InitStopwords ==
    InitWith(Concats(StopwordPieces, MaxStopwordPieces),
             {Config("moderate", pm, None, c) : pm \in BOOLEAN, c \in {<<>>, EN :> {T3E}}},
             {None})

NextStopwords == ReduceTokens \/ ReduceAgain \/ AddCustomStopwords(EN, {CAT})

SpecStopwords == InitStopwords /\ [][NextStopwords]_vars

\* light and moderate reduction of paragraphs: prose lines, blank lines and
\* whitespace-only lines, plain and markdown-aware
MaxNewlineLines == 5
NewlineLines == {<<>>, <<" ">>, <<"a">>, THE}
InitNewlines ==
    InitWith(Joined(NewlineLines, MaxNewlineLines),
             {Config(m, pm, None, <<>>) : m \in {"light", "moderate"}, pm \in BOOLEAN},
             {None})

SpecNewlines == InitNewlines /\ [][Next]_vars

\* validation: texts at, under and over the size limit, languages of letters,
\* hyphens, whitespace and other characters
MaxLanguagePieces == 3
LanguagePieces == {<<"e">>, <<"-">>, <<" ">>, <<"\n">>, <<"/">>}
LimitText == [i \in 1..(MAX_TEXT_LENGTH \div BlockLength) |-> AAA]
InitValidation ==
    InitWith({None, NotAStr, <<>>, <<" ">>, THE, LimitText, Append(LimitText, "a"),
              Append(Tail(LimitText), " ")},
             {Config(m, FALSE, None, <<>>) : m \in Modes} \cup {NoneConfig},
             Concats(LanguagePieces, MaxLanguagePieces) \cup {None, NotAStr})

SpecValidation == InitValidation /\ [][Next]_vars

\* the effective language and the manager: known and unknown languages as
\* argument, as hint and as keys of the custom stopwords, words added to the
\* default manager, a dataset file with and one without English
XX == <<"x", "x">>
DatasetWithoutEnglish == (NB :> {HAN, EN})
LanguageTexts == {THE \o <<" ">> \o HAN \o <<" ">> \o CAT, <<" ">>}
LanguageCodes == {EN, NB, XX}
ManagerAdditions == {<<XX, {THE}>>, <<NB, {CAT}>>}
InitLanguage ==
    InitWithData(LanguageTexts,
                 {Config("moderate", FALSE, h, c) :
                      h \in LanguageCodes \cup {None},
                      c \in {<<>>, XX :> {HAN}, (EN :> {CAT}) @@ (XX :> {HAN})}},
                 LanguageCodes \cup {None},
                 {BundledStopWords, DatasetWithoutEnglish})

NextLanguage ==
    \/ ReduceTokens
    \/ ReduceAgain
    \/ \E addition \in ManagerAdditions : AddCustomStopwords(addition[1], addition[2])
    \/ \E lang \in LanguageCodes : GetStopwords(lang)

SpecLanguage == InitLanguage /\ [][NextLanguage]_vars

\* get_reduction_stats on every pair of short texts, None and non-str values
MaxStatsPieces == 3
StatsPieces == {<<"a">>, <<" ">>, <<"\n">>}
StatsTexts == Concats(StatsPieces, MaxStatsPieces) \cup {None, NotAStr}
InitStats == InitWith({<<>>}, {Config("off", FALSE, None, <<>>)}, {None})

\* one call: the function keeps no state between calls
NextStats ==
    /\ stats = NoStats
    /\ \E o \in StatsTexts, r \in StatsTexts : GetReductionStats(o, r)

SpecStats == InitStats /\ [][NextStats]_vars

\* two managers: words added to either in any order, also an empty list, and
\* the three queries on the default manager, with a dataset file with and one
\* without English
AddedWordLists == {{}, {THE}, {CAT}}
InitManager ==
    InitWithData({<<>>}, {Config("off", FALSE, None, <<>>)}, {None},
                 {BundledStopWords, DatasetWithoutEnglish})

NextManager ==
    \/ \E lang \in {EN, XX}, words \in AddedWordLists :
           AddCustomStopwordsOn("default", lang, words)
    \/ AddCustomStopwordsOn("other", XX, {THE})
    \/ \E lang \in LanguageCodes : GetStopwords(lang)
    \/ \E lang \in LanguageCodes : HasLanguage(lang)
    \/ SupportedLanguages

SpecManager == InitManager /\ [][NextManager]_vars

\* the two lru_caches filled beyond their size: a caller asks for one new key
\* after the other, and now and then for the first key again; a run works
\* on one of the two caches
ExtraKeys == 2
CodeChars == <<"a", "b", "c", "e", "h", "n", "t", "x", "A", "E", "H", "T">>
Code(k) == <<CodeChars[((k - 1) \div Len(CodeChars)) + 1],
             CodeChars[((k - 1) % Len(CodeChars)) + 1]>>
CustomKey(k) == <<EN, {Code(k)}>>

\* the number of the key asked for first among those not asked for yet,
\* held being the numbers of the keys the cache holds
NextKey(held) ==
    IF held = {} THEN 1 ELSE 1 + CHOOSE k \in held : \A j \in held : j <= k

InitCache == InitWith({<<>>}, {Config("off", FALSE, None, <<>>)}, {None})

NextCache ==
    \/ /\ custom_cache = <<>>
       /\ \E k \in {1, NextKey({j \in 1..(STOPWORDS_CACHE_MAXSIZE + ExtraKeys) :
                                     cache_index(stopwords_cache, Code(j)) > 0})} :
              /\ k <= STOPWORDS_CACHE_MAXSIZE + ExtraKeys
              /\ GetCachedStopwords(Code(k))
    \/ /\ \A i \in 1..Len(stopwords_cache) : stopwords_cache[i].key = EN
       /\ \E k \in {1, NextKey({j \in 1..(CUSTOM_CACHE_MAXSIZE + ExtraKeys) :
                                     cache_index(custom_cache, CustomKey(j)) > 0})} :
              /\ k <= CUSTOM_CACHE_MAXSIZE + ExtraKeys
              /\ GetCachedCustomStopwords(EN, {Code(k)})

SpecCache == InitCache /\ [][NextCache]_vars

\* every mode with and without preserve_markdown on texts of comments,
\* punctuation, whitespace, fences and words, and get_reduction_stats of the
\* text and what reduce_tokens returned for it
MaxExpansionPieces == 3
ExpansionPieces ==
    {<<" ">>, <<"\t">>, <<"\n">>, <<"!">>, <<",">>, THE, CommentOpen, CommentClose, Fence}
InitExpansion ==
    InitWith(Concats(ExpansionPieces, MaxExpansionPieces),
             {Config(m, pm, None, <<>>) : m \in Modes, pm \in BOOLEAN}, {None})

NextExpansion ==
    \/ ReduceTokens
    \/ ReduceAgain
    \/ pc = "returned" /\ stats = NoStats /\ GetReductionStats(text, result)

SpecExpansion == InitExpansion /\ [][NextExpansion]_vars

\* the two passes of moderate mode with preserve_markdown: lines of prose,
\* fences, and a comment followed by three backticks
MaxPassLines == 3
PassLines ==
    {<<>>, Fence, CommentOpen \o CommentClose \o Fence, THE \o <<" ">> \o CAT}
InitPasses ==
    InitWith(Joined(PassLines, MaxPassLines), {Config("moderate", TRUE, None, <<>>)}, {None})

SpecPasses == InitPasses /\ [][Next]_vars

\* reduce_tokens calls that return and that raise, get_reduction_stats on
\* what they got and returned, and words added to the default manager
InitFrame ==
    InitWithData({THE \o <<" ">> \o HAN \o <<" ">> \o CAT, None},
                 {Config("moderate", pm, None, c) :
                      pm \in BOOLEAN, c \in {<<>>, (EN :> {CAT}) @@ (XX :> {HAN})}}
                     \cup {Config("light", FALSE, None, <<>>)},
                 {None, XX, NotAStr},
                 {BundledStopWords})

NextFrame ==
    \/ ReduceTokens
    \/ ReduceAgain
    \/ \E addition \in ManagerAdditions : AddCustomStopwords(addition[1], addition[2])
    \/ pc # "idle" /\ stats = NoStats /\ GetReductionStats(original, result)

SpecFrame == InitFrame /\ [][NextFrame]_vars

\* threads that each make one reduce_tokens call at the same time in a
\* fresh process, with the same config and language: no add_custom_stopwords
MaxThreads == 2
Threads == 1..MaxThreads
ThreadTexts == {THE \o <<" ">> \o HAN \o <<" ">> \o CAT, THE \o <<" ">> \o CAT}
InitThreads ==
    /\ InitShared({<<>>},
                  {Config("moderate", pm, None, <<>>) : pm \in BOOLEAN}
                      \cup {Config("light", FALSE, None, <<>>)},
                  {None, NB, XX}, {BundledStopWords, DatasetWithoutEnglish})
    /\ threads \in [Threads -> {ThreadIdle(txt) : txt \in ThreadTexts}]

NextThreads ==
    \E t \in Threads :
        \/ Call(t)
        \/ RefGet(t)
        \/ LoadLookup(t)
        \/ ReadFile(t)
        \/ StoreLoad(t)
        \/ ChooseLanguage(t)
        \/ CacheLookup(t)
        \/ Compute(t)
        \/ CacheStore(t)
        \/ Finish(t)

SpecThreads == InitThreads /\ [][NextThreads]_vars

(***************************************************************************)
(* Claims                                                                  *)
(***************************************************************************)
IsBlank(s) == \A i \in 1..Len(s) : s[i] \in Whitespace

\* the call just made had a config, a str within the size limit and a language
\* that is absent or a non-empty string over A-Z, a-z, 0-9 and '-'
ValidCall ==
    /\ calls >= 1
    /\ config # NoneConfig
    /\ text \notin {None, NotAStr}
    /\ len(text) <= 10000000
    /\ \/ language = None
       \/ /\ language \notin {NotAStr, <<>>}
          /\ \A i \in 1..Len(language) : language[i] \in LanguageChars

\* C1: a valid call with mode "off" returns the text unchanged, whatever the
\* text (empty and whitespace-only included) and the other config fields are
C1_OffReturnsTextUnchanged ==
    (ValidCall /\ config.mode = "off") => (pc = "returned" /\ result = text)

C1_Witness ==
    /\ ValidCall /\ config.mode = "off"
    /\ text = <<" ", "\n">> /\ result = text
    /\ config.preserve_markdown /\ config.language_hint # None
    /\ config.custom_stopwords # <<>>

\* C2: a valid call with any mode other than "off" returns the empty string
\* for an empty or whitespace-only text
C2_BlankTextReturnsEmpty ==
    (ValidCall /\ config.mode # "off" /\ IsBlank(text))
        => (pc = "returned" /\ result = <<>>)

C2_Witness ==
    /\ ValidCall /\ config.mode = "aggressive"
    /\ text = <<"\n", " ">> /\ result = <<>>

\* C3 as stated: with a mode that is none of off, light, moderate every text is
\* returned unchanged
C3_UnrecognizedModeReturnsEveryText ==
    (ValidCall /\ config.mode \notin {"off", "light", "moderate"})
        => (pc = "returned" /\ result = text)

\* C3 amended: with a mode that is none of off, light, moderate the call raises
\* nothing and returns the text unchanged, except that a whitespace-only text
\* is returned as the empty string
C3_UnrecognizedModePassThrough ==
    (ValidCall /\ config.mode \notin {"off", "light", "moderate"})
        => (pc = "returned" /\ result = IF IsBlank(text) THEN <<>> ELSE text)

C3_Witness ==
    /\ ValidCall /\ config.mode = "aggressive"
    /\ text = <<" ", "!", "!">> /\ result = text

\* a valid call in light mode has returned
LightCall == ValidCall /\ config.mode = "light" /\ pc = "returned"

InClass(s, i, cls) == i \in 1..Len(s) /\ s[i] \in cls

\* position i is the last of its maximal run of [!?.] or of commas
IsRunLast(s, i) ==
    /\ ~(InClass(s, i, TerminalPunctuation) /\ InClass(s, i + 1, TerminalPunctuation))
    /\ ~(InClass(s, i, {","}) /\ InClass(s, i + 1, {","}))

\* position i is the first of its maximal run of [!?.] or of commas
IsRunFirst(s, i) ==
    /\ ~(InClass(s, i, TerminalPunctuation) /\ InClass(s, i - 1, TerminalPunctuation))
    /\ ~(InClass(s, i, {","}) /\ InClass(s, i - 1, {","}))

\* the characters of s that end a run, in order
RunLasts(s) ==
    LET F[i \in 0..Len(s)] ==
            IF i = 0 THEN <<>>
            ELSE F[i - 1] \o (IF IsRunLast(s, i) THEN <<s[i]>> ELSE <<>>)
    IN F[Len(s)]

\* the characters of s that start a run, in order
RunFirsts(s) ==
    LET F[i \in 0..Len(s)] ==
            IF i = 0 THEN <<>>
            ELSE F[i - 1] \o (IF IsRunFirst(s, i) THEN <<s[i]>> ELSE <<>>)
    IN F[Len(s)]

NonBlank(s) == SelectSeq(s, LAMBDA c : c \notin Whitespace)

\* C9 as stated: every run of two or more of [!?.] becomes the first character
\* of the run, every run of commas one comma (characters outside runs stay)
C9_RunBecomesItsFirstCharacter ==
    LightCall => NonBlank(result) = NonBlank(RunFirsts(text))

\* C9 amended: every run of two or more of [!?.] becomes the last character of
\* the run, every run of two or more commas one comma
C9_RunBecomesItsLastCharacter ==
    LightCall => NonBlank(result) = NonBlank(RunLasts(text))

C9_Witness ==
    /\ LightCall
    /\ text = <<"?", "!", ",", ",">> /\ result = <<"!", ",">>

\* a maximal run of [!?.] of s holds two different characters
HasMixedRun(s) ==
    \E i \in 1..Len(s) :
        /\ InClass(s, i, TerminalPunctuation) /\ InClass(s, i + 1, TerminalPunctuation)
        /\ s[i] # s[i + 1]

HasAdjacentPunctuation(s) ==
    \E i \in 1..Len(s) :
        InClass(s, i, TerminalPunctuation) /\ InClass(s, i + 1, TerminalPunctuation)

\* how many terminal punctuation characters s has
PunctuationCount(s) ==
    Cardinality({i \in 1..Len(s) : InClass(s, i, TerminalPunctuation)})

\* how many maximal runs of terminal punctuation s has
PunctuationRunCount(s) ==
    Cardinality({i \in 1..Len(s) :
        InClass(s, i, TerminalPunctuation) /\ ~InClass(s, i - 1, TerminalPunctuation)})

\* C10 as stated: a run mixing different terminal punctuation characters is not
\* collapsed to a single character, so punctuation stays adjacent in the result
C10_MixedRunNotCollapsed ==
    (LightCall /\ HasMixedRun(text)) => HasAdjacentPunctuation(result)

\* C10 amended: '!', '?' and '.' form one class, so a run mixing them is
\* collapsed to a single character like any other run: the result has one
\* terminal punctuation character per run of the text
C10_MixedRunCollapsedToOneCharacter ==
    (LightCall /\ HasMixedRun(text))
        => PunctuationCount(result) = PunctuationRunCount(text)

C10_Witness ==
    /\ LightCall
    /\ text = <<"?", "!", "?", "!">> /\ result = <<"!">>

\* C4 as stated: reducing the light-reduced text again, in light mode, returns
\* it unchanged
C4_LightIsIdempotent ==
    (LightCall /\ calls >= 2) => result = text

\* no '<' of s is directly followed by '!', '?' or '.'
NoCommentOpener(s) ==
    \A i \in 1..Len(s) : s[i] = "<" => ~InClass(s, i + 1, TerminalPunctuation)

\* the last non-blank line of s is a list marker alone: '-', '*', '+' or
\* digits and a '.', after any leading whitespace
EndsWithBareListMarker(s) ==
    LET lines == split_lines(rstrip(s))
        last == lstrip(lines[Len(lines)])
    IN \/ last \in {<<"-">>, <<"*">>, <<"+">>}
       \/ /\ Len(last) >= 2 /\ last[Len(last)] = "."
          /\ \A i \in 1..(Len(last) - 1) : last[i] \in Digits

\* C4 amended: light reduction is idempotent on every text in which no '<' is
\* directly followed by '!', '?' or '.' and, with preserve_markdown, whose
\* last non-blank line is not a list marker alone
C4_LightIsIdempotentWithoutComments ==
    (/\ LightCall /\ calls >= 2
     /\ NoCommentOpener(original)
     /\ config.preserve_markdown => ~EndsWithBareListMarker(original))
        => result = text

C4_Witness ==
    /\ LightCall /\ calls = 2 /\ config.preserve_markdown
    /\ original = <<"!", "!", "\n">> /\ text = <<"!">> /\ result = text

\* the interiors of the fenced code blocks of lines[i..]: for each opening
\* fence the lines up to the next fence line or the end of the text; open is
\* the interior of the block being read, <<>> outside a block
RECURSIVE Interiors(_, _, _, _)
Interiors(lines, i, in_code_block, open) ==
    IF i > Len(lines) THEN (IF in_code_block THEN {open} ELSE {})
    ELSE IF is_fence_line(lines[i])
         THEN (IF in_code_block THEN {open} ELSE {})
                  \cup Interiors(lines, i + 1, ~in_code_block, <<>>)
         ELSE Interiors(lines, i + 1, in_code_block,
                        IF in_code_block THEN Append(open, lines[i]) ELSE <<>>)

\* the lines of part are consecutive lines of whole
OccursIn(part, whole) ==
    \E k \in 0..(Len(whole) - Len(part)) : SubSeq(whole, k + 1, k + Len(part)) = part

\* C5: with preserve_markdown, in every mode, the interior of every fenced code
\* block of the text (closed, or open to the end of the text) is in the result
\* line by line, unchanged
C5_CodeBlockInteriorsUnchanged ==
    (ValidCall /\ pc = "returned" /\ config.preserve_markdown)
        => \A block \in Interiors(split_lines(text), 1, FALSE, <<>>) :
               OccursIn(block, split_lines(result))

\* the structural lines of lines[i..], in order: fence lines, lines inside a
\* code block, headings, table rows, list items
RECURSIVE StructuralLines(_, _, _)
StructuralLines(lines, i, in_code_block) ==
    IF i > Len(lines) THEN <<>>
    ELSE IF is_fence_line(lines[i])
         THEN <<lines[i]>> \o StructuralLines(lines, i + 1, ~in_code_block)
         ELSE (IF is_markdown_structural_line(lines[i], in_code_block)
               THEN <<lines[i]>> ELSE <<>>)
                  \o StructuralLines(lines, i + 1, in_code_block)

\* the elements of part are elements of whole, in the same order
RECURSIVE IsSubsequence(_, _)
IsSubsequence(part, whole) ==
    IF part = <<>> THEN TRUE
    ELSE IF whole = <<>> THEN FALSE
    ELSE IF Head(part) = Head(whole) THEN IsSubsequence(Tail(part), Tail(whole))
    ELSE IsSubsequence(part, Tail(whole))

\* C6: with preserve_markdown, in light and moderate mode, every structural
\* line of the text is a line of the result, verbatim and in the same order
C6_StructuralLinesVerbatim ==
    (ValidCall /\ pc = "returned" /\ config.preserve_markdown
        /\ config.mode \in {"light", "moderate"})
        => IsSubsequence(StructuralLines(split_lines(text), 1, FALSE), split_lines(result))

\* a valid call in moderate mode has returned
ModerateCall == ValidCall /\ config.mode = "moderate" /\ pc = "returned"

\* the token has a letter and none of its letters is lower-case
IsFullyUppercase(token) ==
    /\ \E i \in 1..Len(token) : token[i] \in UpperLetters \cup LowerLetters
    /\ \A i \in 1..Len(token) : token[i] \notin LowerLetters

ContainsDigit(token) == \E i \in 1..Len(token) : token[i] \in Digits

IsProtected(token) == IsFullyUppercase(token) \/ ContainsDigit(token)

\* the text that the stopword stage of the call was given
StopwordStageInput == apply_light_reduction(text, config.preserve_markdown)

\* C7: the stopword stage of moderate mode removes no token that is fully
\* uppercase and no token that contains a digit, whatever the stopword set:
\* the protected tokens it was given are the protected tokens it returns
C7_ProtectedTokensAreKept ==
    ModerateCall
        => SelectSeq(split(result), IsProtected)
               = SelectSeq(split(StopwordStageInput), IsProtected)

C7_Witness ==
    /\ ModerateCall
    /\ text = <<"T", "H", "E", " ", "t", "3", "e">> /\ result = text
    /\ THE \in stopwords /\ T3E \in stopwords /\ CAT \in stopwords

\* the comparison key of a token: its word characters, lower-cased
Key(token) == lower(SelectSeq(token, LAMBDA c : c \in WordChars))

\* the four conditions under which a token is removed
IsRemovable(token) ==
    /\ Key(token) \in stopwords
    /\ Len(Key(token)) >= 3
    /\ ~IsFullyUppercase(token)
    /\ ~ContainsDigit(token)

\* the text is prose for the stopword stage: not markdown-aware, or one line
\* that is neither a fence nor structural
IsProse(s) ==
    \/ ~config.preserve_markdown
    \/ /\ \A i \in 1..Len(s) : s[i] # "\n"
       /\ ~is_fence_line(s) /\ ~is_markdown_structural_line(s, FALSE)

\* C8: the stopword stage removes a token of prose if and only if its key is in
\* the stopword set, the key has at least 3 characters, the token is not all
\* uppercase and has no digit; the other tokens are returned as they are,
\* joined by single spaces
C8_RemovedIffAllFourHold ==
    (ModerateCall /\ IsProse(StopwordStageInput))
        => result = join(<<" ">>, SelectSeq(split(StopwordStageInput),
                                            LAMBDA token : ~IsRemovable(token)))

C8_Witness ==
    /\ ModerateCall /\ IsProse(StopwordStageInput)
    /\ text = <<"t", "h", "e", " ", "a", "n">> /\ result = <<"a", "n">>
    /\ AN \in stopwords

\* the text is prose for light reduction: not markdown-aware, or no line of it
\* is a fence line or a structural line
IsProseText(s) ==
    \/ ~config.preserve_markdown
    \/ \A i \in 1..Len(split_lines(s)) :
           /\ ~is_fence_line(split_lines(s)[i])
           /\ ~is_markdown_structural_line(split_lines(s)[i], FALSE)

HasAdjacentCommas(s) ==
    \E i \in 1..Len(s) : InClass(s, i, {","}) /\ InClass(s, i + 1, {","})

\* C11: the light reduction of prose has no two adjacent characters of
\* '!', '?', '.' and no two adjacent commas, whatever runs the text had
C11_NoAdjacentPunctuationInProse ==
    (LightCall /\ IsProseText(text))
        => (~HasAdjacentPunctuation(result) /\ ~HasAdjacentCommas(result))

C11_Witness ==
    /\ LightCall /\ IsProseText(text) /\ config.preserve_markdown
    /\ text = <<"1", ".", "!", ",">> /\ result = <<"1", "!", ",">>

\* the lengths of the maximal runs of newlines of s, in order
NewlineRuns(s) ==
    LET F[i \in 0..Len(s)] ==
            IF i = 0 THEN <<>>
            ELSE IF s[i] # "\n" THEN F[i - 1]
            ELSE IF i > 1 /\ s[i - 1] = "\n"
                 THEN [F[i - 1] EXCEPT ![Len(F[i - 1])] = @ + 1]
                 ELSE Append(F[i - 1], 1)
    IN F[Len(s)]

HasTripleNewline(s) ==
    \E i \in 1..(Len(s) - 2) : s[i] = "\n" /\ s[i + 1] = "\n" /\ s[i + 2] = "\n"

ContainsCommentOpen(s) == \E i \in 1..Len(s) : MatchAt(s, i, CommentOpen)

\* s is prose lines without HTML comments, separated by runs of three or more
\* newlines only: every newline has a newline or a non-whitespace character on
\* either side, and every run has three newlines at least
IsParagraphs(s) ==
    /\ IsProseText(s) /\ ~ContainsCommentOpen(s)
    /\ NewlineRuns(s) # <<>>
    /\ \A k \in 1..Len(NewlineRuns(s)) : NewlineRuns(s)[k] >= 3
    /\ \A i \in 1..Len(s) :
           s[i] = "\n" => /\ i > 1 /\ (s[i - 1] = "\n" \/ s[i - 1] \notin Whitespace)
                          /\ i < Len(s) /\ (s[i + 1] = "\n" \/ s[i + 1] \notin Whitespace)

\* every run of newlines of the text is a run of exactly two in the result
RunsBecomeTwo == NewlineRuns(result) = [k \in 1..Len(NewlineRuns(text)) |-> 2]

\* a valid call in light or moderate mode has returned
ReducingCall == ValidCall /\ config.mode \in {"light", "moderate"} /\ pc = "returned"

\* C12 as stated: the result of light or moderate reduction has no three
\* newlines in a row and no leading or trailing whitespace, and a run of three
\* or more newlines between two prose lines is a run of exactly two in it
C12_NewlinesNormalizedInEveryMode ==
    ReducingCall
        => /\ ~HasTripleNewline(result) /\ strip(result) = result
           /\ IsParagraphs(text) => RunsBecomeTwo

\* C12 amended: the result of light or moderate reduction has no three
\* newlines in a row and no leading or trailing whitespace; in light mode a
\* run of three or more newlines between two prose lines without HTML
\* comments is a run of exactly two in it
C12_NewlinesNormalized ==
    ReducingCall
        => /\ ~HasTripleNewline(result) /\ strip(result) = result
           /\ (config.mode = "light" /\ IsParagraphs(text)) => RunsBecomeTwo

C12_Witness ==
    /\ ReducingCall /\ config.mode = "light" /\ IsParagraphs(text)
    /\ text = <<"a", "\n", "\n", "\n", "\n", "a">>
    /\ result = <<"a", "\n", "\n", "a">>

\* the language argument is a str
LanguageGiven == language \notin {None, NotAStr}

\* the language string has a character outside A-Z, a-z, 0-9 and '-'
HasForeignCharacter(lang) == \E i \in 1..Len(lang) : lang[i] \notin LanguageChars

\* C13: in every mode a call with a language string that is empty, is
\* whitespace-only or has a character outside A-Z, a-z, 0-9 and '-' raises a
\* ValidationError and returns no text
C13_MalformedLanguageRaises ==
    (calls >= 1 /\ LanguageGiven /\ (IsBlank(language) \/ HasForeignCharacter(language)))
        => (pc = "raised" /\ error # "" /\ result = None)

\* the preconditions of reduce_tokens that the call violates
ConfigMissing == config = NoneConfig
TextMissing == text = None
TextNotAStr == text \in {None, NotAStr}
LanguageNotAStr == language = NotAStr
LanguageBlank == LanguageGiven /\ IsBlank(language)
LanguageMalformed == LanguageGiven /\ HasForeignCharacter(language)
TextTooLarge == text \notin {None, NotAStr} /\ len(text) > 10000000

\* the error of the first precondition of checks, pairs of a violation and its
\* error, that is violated
RECURSIVE FirstViolated(_)
FirstViolated(checks) ==
    IF checks = <<>> THEN ""
    ELSE IF Head(checks)[1] THEN Head(checks)[2]
    ELSE FirstViolated(Tail(checks))

ViolationCount(checks) == Cardinality({k \in 1..Len(checks) : checks[k][1]})

\* config, text, language (type, blank, format), size of the text
ChecksLanguageBeforeSize ==
    << <<ConfigMissing, "Config cannot be None">>,
       <<TextMissing, "Text cannot be None">>,
       <<TextNotAStr, "Text must be a string">>,
       <<LanguageNotAStr, "Language must be a string or None">>,
       <<LanguageBlank, "Language cannot be empty or whitespace-only">>,
       <<LanguageMalformed, "Invalid language code format">>,
       <<TextTooLarge, "Text too large">> >>

\* config, text, language (type, blank), size of the text, format of the
\* language
ChecksFormatLast ==
    << <<ConfigMissing, "Config cannot be None">>,
       <<TextMissing, "Text cannot be None">>,
       <<TextNotAStr, "Text must be a string">>,
       <<LanguageNotAStr, "Language must be a string or None">>,
       <<LanguageBlank, "Language cannot be empty or whitespace-only">>,
       <<TextTooLarge, "Text too large">>,
       <<LanguageMalformed, "Invalid language code format">> >>

\* C14 as stated: a call that violates several preconditions raises the error
\* of the earliest one in the order config, text, language, size of the text
C14_ErrorOfEarliestLanguageBeforeSize ==
    (calls >= 1 /\ ViolationCount(ChecksLanguageBeforeSize) >= 2)
        => (pc = "raised" /\ error = FirstViolated(ChecksLanguageBeforeSize))

\* C14 amended: a call that violates several preconditions raises the error
\* of the earliest one in the order config present, text present and a str,
\* language a str and not blank, size of the text, format of the language
C14_ErrorOfEarliestFormatLast ==
    (calls >= 1 /\ ViolationCount(ChecksFormatLast) >= 2)
        => (pc = "raised" /\ error = FirstViolated(ChecksFormatLast))

C14_Witness ==
    /\ calls >= 1 /\ TextTooLarge /\ LanguageMalformed /\ ~LanguageBlank
    /\ ~ConfigMissing /\ config.mode = "off"
    /\ pc = "raised" /\ error = "Text too large"

\* the call has a config and a language that is absent or a non-empty string
\* over A-Z, a-z, 0-9 and '-'
OtherArgumentsValid ==
    /\ config # NoneConfig
    /\ language = None \/ (LanguageGiven /\ language # <<>> /\ ~HasForeignCharacter(language))

\* C15: in every mode a text of more than 10,000,000 characters raises a
\* ValidationError, the one for its size when the other arguments are valid;
\* a text of at most 10,000,000 characters, the limit included, is accepted
C15_SizeLimitInclusive ==
    (calls >= 1 /\ text \notin {None, NotAStr})
        => /\ len(text) > 10000000 => (pc = "raised" /\ result = None)
           /\ (len(text) > 10000000 /\ OtherArgumentsValid) => error = "Text too large"
           /\ (len(text) <= 10000000 /\ OtherArgumentsValid) => pc = "returned"

C15_Witness ==
    /\ calls >= 1 /\ ValidCall /\ len(text) = 10000000
    /\ config.mode = "light" /\ pc = "returned" /\ result = text

\* the language the call asks for: the argument when given, otherwise the
\* hint of the config when set, otherwise English
RequestedLanguage ==
    IF language # None THEN language
    ELSE IF config.language_hint # None THEN config.language_hint
    ELSE EN

BuiltInWords(lang) == IF lang \in DOMAIN stop_words_json THEN stop_words_json[lang] ELSE {}
ManagerWords(lang) == IF lang \in DOMAIN manager_custom THEN manager_custom[lang] ELSE {}
ConfigWords(lang) ==
    IF lang \in DOMAIN config.custom_stopwords THEN config.custom_stopwords[lang] ELSE {}

\* the default manager knows the language
IsKnown(lang) == lang \in DOMAIN stop_words_json \/ lang \in DOMAIN manager_custom

\* a valid moderate call on a text that is not blank has returned
ModerateFiltering == ModerateCall /\ ~IsBlank(text)

\* C16: a moderate call filters with the language of its argument when one is
\* given, otherwise with the hint of its config when one is set, otherwise
\* with English: of a language with built-in words, it uses exactly these
\* built-in words, next to custom words of that language
C16_ArgumentThenHintThenEnglish ==
    (ModerateFiltering /\ RequestedLanguage \in DOMAIN stop_words_json)
        => stopwords \ (ManagerWords(RequestedLanguage) \cup ConfigWords(RequestedLanguage))
               = BuiltInWords(RequestedLanguage)

C16_Witness ==
    /\ ModerateFiltering /\ language = NB /\ config.language_hint = EN
    /\ stopwords = {HAN, EN}
    /\ result = THE \o <<" ">> \o CAT

\* the token is removed by the stopword stage when it filters with words
RemovedWith(token, words) ==
    /\ Key(token) \in words /\ Len(Key(token)) >= 3
    /\ ~IsFullyUppercase(token) /\ ~ContainsDigit(token)

\* the text of the call, light-reduced and filtered with words
FilteredWith(words) ==
    join(<<" ">>, SelectSeq(split(StopwordStageInput),
                            LAMBDA token : ~RemovedWith(token, words)))

\* C17: a moderate call for a language that the default manager does not
\* know raises nothing and behaves as a call for 'en': it filters with the
\* English words and the config words keyed 'en', with no word that only the
\* config entry of the requested language has; when the manager does not know
\* 'en' either, it returns the light-reduced text.  (The manager never
\* forgets a language, so one it does not know now was unknown to the call.)
C17_UnknownLanguageFallsBackToEnglish ==
    (ModerateFiltering /\ ~IsKnown(RequestedLanguage))
        => /\ EN \in DOMAIN stop_words_json
                => /\ BuiltInWords(EN) \cup ConfigWords(EN) \subseteq stopwords
                   /\ stopwords \subseteq
                          BuiltInWords(EN) \cup ManagerWords(EN) \cup ConfigWords(EN)
                   /\ result = FilteredWith(stopwords)
           /\ ~IsKnown(EN) => (stopwords = {} /\ result = StopwordStageInput)

C17_Witness ==
    /\ ModerateFiltering /\ ~IsKnown(RequestedLanguage) /\ IsKnown(EN)
    /\ language = XX /\ ConfigWords(XX) = {HAN} /\ ConfigWords(EN) = {CAT}
    /\ stopwords = {THE, AN, CAT}
    /\ result = HAN

\* the language a moderate call filters with
LanguageUsed == IF IsKnown(RequestedLanguage) THEN RequestedLanguage ELSE EN

\* the call has filtered with the words the manager has for the language
\* now, and the words of the config entry for it
FiltersWithManagerWords ==
    (ModerateFiltering /\ IsKnown(LanguageUsed))
        => stopwords = BuiltInWords(LanguageUsed) \cup ManagerWords(LanguageUsed)
                           \cup ConfigWords(LanguageUsed)

\* C18: right after every moderate call, whatever add_custom_stopwords calls
\* and reduce_tokens calls came before it, the call has filtered with exactly
\* get_stopwords(language) of the default manager as of the call, and the
\* config words for that language
C18_FiltersWithCurrentManagerWords ==
    [][calls' = calls + 1 => FiltersWithManagerWords']_vars

\* the sign of a ratio
IsZero(ratio) == ratio.num = 0
IsPositive(ratio) == ratio.num * ratio.den > 0
IsNegative(ratio) == ratio.num * ratio.den < 0

\* the ratio is 0.0 when the original count is 0 or the counts are equal,
\* positive exactly when the reduced count is smaller, negative exactly when
\* it is larger
RatioSign(ratio, original_count, reduced_count) ==
    /\ (original_count = 0 \/ original_count = reduced_count) => IsZero(ratio)
    /\ IsPositive(ratio) <=> (original_count > 0 /\ reduced_count < original_count)
    /\ IsNegative(ratio) <=> (original_count > 0 /\ reduced_count > original_count)

\* how many characters of s start a run of non-whitespace
TokenCount(s) ==
    Cardinality({i \in 1..Len(s) : s[i] \notin Whitespace /\ ~(i > 1 /\ s[i - 1] \notin Whitespace)})

\* C19: get_reduction_stats of two strings counts characters as string
\* lengths and tokens as whitespace-separated words, and each ratio is 0.0
\* when the original count is 0 or both counts are equal, positive exactly
\* when the reduced count is smaller and negative exactly when it is larger
C19_CountsAndRatioSigns ==
    (stats.pc # "idle" /\ stats.original \notin {None, NotAStr}
                      /\ stats.reduced \notin {None, NotAStr})
        => /\ stats.pc = "returned"
           /\ stats.original_characters = Len(stats.original)
           /\ stats.reduced_characters = Len(stats.reduced)
           /\ stats.original_tokens = TokenCount(stats.original)
           /\ stats.reduced_tokens = TokenCount(stats.reduced)
           /\ RatioSign(stats.character_reduction_ratio,
                        Len(stats.original), Len(stats.reduced))
           /\ RatioSign(stats.token_reduction_ratio,
                        TokenCount(stats.original), TokenCount(stats.reduced))

C19_Witness ==
    /\ stats.pc = "returned"
    /\ stats.original = <<" ">> /\ stats.reduced = <<"a", " ", "a">>
    /\ stats.original_tokens = 0 /\ stats.reduced_tokens = 2
    /\ IsZero(stats.token_reduction_ratio)
    /\ IsNegative(stats.character_reduction_ratio)

\* the answer is the union of the built-in and the custom words of the
\* language asked for, empty when the language has neither
AnswerIsUnion == query # None => answer = BuiltInWords(query) \cup ManagerWords(query)

\* C20: right after every get_stopwords call on the default manager, in every
\* state the manager can be in, the answer is exactly that union
C20_GetStopwordsIsUnion ==
    [][(query' # query \/ answer' # answer) => AnswerIsUnion']_vars

C20_Witness ==
    /\ query = NB /\ answer = {HAN, EN, CAT}
    /\ ManagerWords(NB) = {CAT} /\ stop_words_json = BundledStopWords

\* the keys of the built-in data and of the custom data of the default manager
KnownLanguages == DOMAIN stop_words_json \cup DOMAIN manager_custom

Elements(list) == {list[i] : i \in 1..Len(list)}

\* each element is smaller than the next, so none occurs twice
IsStrictlyAscending(list) ==
    \A i \in 1..Len(list), j \in 1..Len(list) : i < j => str_lt(list[i], list[j])

\* the answer of the latest has_language or supported_languages call agrees
\* with the keys the manager holds
ManagerCallAgrees ==
    /\ manager_call.op = "has_language"
        => (manager_call.known <=> manager_call.language \in KnownLanguages)
    /\ manager_call.op = "supported_languages"
        => /\ Elements(manager_call.languages) = KnownLanguages
           /\ IsStrictlyAscending(manager_call.languages)

\* C21: has_language(l) is true exactly when l is a key of the built-in data
\* or of the custom data of the manager, which is exactly when l occurs in
\* supported_languages(); supported_languages() is sorted ascending and holds
\* no language twice
C21_HasLanguageIffSupported ==
    [][manager_call' # manager_call => ManagerCallAgrees']_vars

\* supported_languages() of a manager with a custom-only language, a built-in
\* language and one that is both
C21_Witness ==
    /\ manager_call.op = "supported_languages"
    /\ manager_call.languages = <<EN, NB, XX>>
    /\ DOMAIN manager_custom = {EN, XX}
    /\ DOMAIN stop_words_json = {EN, NB}

\* get_stopwords(lang) of the default manager as it is
StopwordsOf(lang) == get_stopwords(manager_custom, lang)

\* adding the same words once more changes nothing in the manager
RepeatChangesNothing ==
    \A lang \in LanguageCodes, words \in AddedWordLists :
        LET once == add_custom_stopwords(manager_custom, lang, words)
        IN add_custom_stopwords(once, lang, words) = once

\* C22: over any sequence of add_custom_stopwords calls get_stopwords(l)
\* only grows for every language l, it always holds every built-in word of
\* l, and repeating a call with the same words leaves the manager unchanged
C22_CustomStopwordsAreAdditive ==
    [][/\ \A lang \in LanguageCodes :
              /\ StopwordsOf(lang) \subseteq StopwordsOf(lang)'
              /\ BuiltInWords(lang) \subseteq StopwordsOf(lang)'
       /\ RepeatChangesNothing]_vars

\* words added twice to a built-in language: its set holds the built-in
\* words and both additions
C22_Witness ==
    /\ EN \in DOMAIN manager_custom
    /\ manager_custom[EN] = {THE, CAT}
    /\ StopwordsOf(EN) = {THE, AN, CAT}

\* C23: with any number of threads making their first calls at the same
\* time the bundled dataset is read exactly once per process, every later
\* call gets the memoized value, and nothing changes the built-in data
C23_DatasetReadExactlyOnce ==
    /\ file_reads <= 1
    /\ load_cache.loaded => file_reads = 1 /\ load_cache.data = stop_words_json
    /\ \A t \in DOMAIN threads :
           threads[t].data.loaded => threads[t].data.data = stop_words_json

\* what the call of thread t returns when it runs alone in a fresh process
ResultAlone(t) ==
    reduce_tokens(threads[t].text, config, language, <<>>, <<>>, <<>>).value

ManagerAnswers ==
    [lang \in LanguageCodes |->
        [words |-> get_stopwords(manager_custom, lang),
         known |-> has_language(manager_custom, lang)]]

\* a reduce_tokens call has returned or raised, or get_reduction_stats has
IsPipelineCall == calls' = calls + 1 \/ stats' # stats

\* C25: after any reduce_tokens or get_reduction_stats call, returning or
\* raising a validation error, get_stopwords, has_language and
\* supported_languages of the default manager answer as before the call, and
\* the config and its custom_stopwords are unchanged
C25_PipelineOnlyReadsManager ==
    [][IsPipelineCall
          => /\ ManagerAnswers' = ManagerAnswers
             /\ supported_languages(manager_custom)' = supported_languages(manager_custom)
             /\ config' = config]_vars

\* a moderate call with custom words of the config has filtered, with words
\* in the manager, and the statistics have been computed
C25_Witness ==
    /\ pc = "returned"
    /\ config.mode = "moderate"
    /\ CAT \in stopwords
    /\ DOMAIN manager_custom = {NB, XX}
    /\ stats # NoStats

\* the trimmed form of the line starts with three backticks
StartsWithFence(line) == startswith(strip(line), Fence)

\* an odd number of the lines before line i start with a fence
OddFencesBefore(lines, i) ==
    Cardinality({k \in 1..(i - 1) : StartsWithFence(lines[k])}) % 2 = 1

\* the lines a scan emits when in_code_block is the parity of the fence
\* lines before each line: fence lines, lines inside a code block,
\* structural lines and blank lines as they are, the others reduced
ScanByParity(lines, Reduce(_)) ==
    [i \in 1..Len(lines) |->
        IF \/ StartsWithFence(lines[i])
           \/ OddFencesBefore(lines, i)
           \/ is_markdown_structural_line(lines[i], FALSE)
           \/ strip(lines[i]) = <<>>
        THEN lines[i]
        ELSE Reduce(lines[i])]

\* what a markdown-aware pass returns for the lines it emits
Emitted(lines) == strip(normalize_newlines(join(<<"\n">>, lines)))

LightByParity(s) == Emitted(ScanByParity(split_lines(s), apply_light_reduction_plain))

StopwordsByParity(s) ==
    LET Reduce(line) == apply_stopword_reduction_plain(line, stopwords)
    IN Emitted(ScanByParity(split_lines(s), Reduce))

\* C26: in the markdown-aware scans in_code_block is true at a line exactly
\* when an odd number of earlier lines start, trimmed, with three backticks:
\* every fence line flips the flag, also inside an open code block, and is
\* emitted unchanged
C26_InCodeBlockIsFenceParity ==
    ValidCall /\ pc = "returned" /\ config.preserve_markdown /\ ~IsBlank(text)
        => /\ config.mode = "light" => result = LightByParity(text)
           /\ config.mode = "moderate" => result = StopwordsByParity(LightByParity(text))

\* prose inside a closed code block is kept and the same prose after it is
\* reduced
C26_Witness ==
    /\ config.mode = "moderate"
    /\ pc = "returned"
    /\ text = join(<<"\n">>, <<Fence, <<"t", "h", "e", " ", " ", "a">>, Fence,
                               <<"t", "h", "e", " ", " ", "a">> >>)
    /\ result = join(<<"\n">>, <<Fence, <<"t", "h", "e", " ", " ", "a">>, Fence, <<"a">> >>)

Keys(cache) == {cache[i].key : i \in 1..Len(cache)}

\* the keys the step drops from the cache
Evicted(before, after) == Keys(before) \ Keys(after)

\* the first key of an order of keys, if it has one
First(keys) == IF keys = <<>> THEN {} ELSE {Head(keys)}

BothBounded ==
    /\ Len(stopwords_cache) <= 128
    /\ Len(custom_cache) <= 64

\* C27, as stated: neither cache ever holds more than 128 and 64 entries,
\* and the entry a full cache drops for a new key is the oldest-inserted one
C27_BoundedEvictingOldestInserted ==
    [][/\ BothBounded'
       /\ Evicted(stopwords_cache, stopwords_cache') \subseteq First(cache_use.language.stored)
       /\ Evicted(custom_cache, custom_cache') \subseteq First(cache_use.custom.stored)]_vars

\* C27, amended: neither cache ever holds more than 128 and 64 entries, and
\* the entry a full cache drops for a new key is the least recently used
\* one: asking for a key again, also on a hit, makes it the newest
C27_BoundedEvictingLeastRecentlyUsed ==
    [][/\ BothBounded'
       /\ Evicted(stopwords_cache, stopwords_cache') \subseteq First(cache_use.language.used)
       /\ Evicted(custom_cache, custom_cache') \subseteq First(cache_use.custom.used)]_vars

\* the full language cache has dropped its second key and still holds the
\* first, which was asked for again
C27_Witness ==
    /\ Len(stopwords_cache) = 128
    /\ Code(1) \in Keys(stopwords_cache)
    /\ Code(2) \notin Keys(stopwords_cache)
    /\ Code(129) \in Keys(stopwords_cache)

\* C28: reduce_tokens never expands its input: in every mode, with and
\* without preserve_markdown, the output has at most as many characters and
\* at most as many whitespace-separated tokens as the text, so
\* get_reduction_stats of the two never reports a negative ratio
C28_NeverExpands ==
    /\ ValidCall /\ pc = "returned"
           => /\ len(result) <= len(text)
              /\ TokenCount(result) <= TokenCount(text)
    /\ stats.pc = "returned"
           => /\ ~IsNegative(stats.character_reduction_ratio)
              /\ ~IsNegative(stats.token_reduction_ratio)

\* a comment after a word is removed in light mode: fewer characters, the
\* character ratio positive
C28_Witness ==
    /\ stats.pc = "returned"
    /\ stats.original = THE \o CommentOpen \o CommentClose
    /\ stats.reduced = THE
    /\ IsPositive(stats.character_reduction_ratio)
    /\ config.mode = "light"

\* the light pass reduces line i: it is no fence, outside every code block,
\* not structural and not blank
LightProseLine(lines, i) ==
    /\ ~StartsWithFence(lines[i])
    /\ ~OddFencesBefore(lines, i)
    /\ ~is_markdown_structural_line(lines[i], FALSE)
    /\ strip(lines[i]) # <<>>

\* the lines the light pass hands on, one for each line of the text; the
\* final normalization and strip of the pass remove whitespace only, so the
\* stopword pass meets the same fence lines before each of them
LightPassLines(s) == ScanByParity(split_lines(s), apply_light_reduction_plain)

\* C29: in moderate mode with preserve_markdown every line the light pass
\* treated as prose is outside any code block in the stopword pass too: the
\* light reduction turns no prose line into a fence line that changes
\* in_code_block for later lines
C29_PassesClassifyConsistently ==
    ModerateCall /\ config.preserve_markdown /\ ~IsBlank(text)
        => \A i \in 1..Len(split_lines(text)) :
               LightProseLine(split_lines(text), i)
                   => /\ ~OddFencesBefore(LightPassLines(text), i)
                      /\ \A k \in 1..(i - 1) :
                             LightProseLine(split_lines(text), k)
                                 => ~StartsWithFence(LightPassLines(text)[k])

\* the custom set of a language in a manager, if it has one
CustomSet(custom, lang) == IF lang \in DOMAIN custom THEN {custom[lang]} ELSE {}

\* the custom sets of the two managers, by manager and language
CustomSets ==
    [self \in {"default", "other"}, lang \in LanguageCodes |->
        CustomSet(IF self = "default" THEN manager_custom ELSE other_custom, lang)]

\* what the set object returned by the latest get_stopwords call holds now
ReturnedSetNow ==
    IF answer_ref[1] = "result" THEN answer
    ELSE UNION CustomSet(manager_custom, answer_ref[2])

\* words were added to a manager
IsAddition == manager_custom' # manager_custom \/ other_custom' # other_custom

\* C30: add_custom_stopwords changes only the custom set of that language
\* in that manager: the custom sets of the other languages, the built-in
\* data and every other manager stay as they are, and a set get_stopwords
\* returned earlier is not altered
C30_AddChangesOneCustomSet ==
    [][IsAddition
          => /\ \E self \in {"default", "other"}, lang \in LanguageCodes :
                    \A other \in {"default", "other"}, l \in LanguageCodes :
                        <<other, l>> # <<self, lang>>
                            => CustomSets'[other, l] = CustomSets[other, l]
             /\ stop_words_json' = stop_words_json
             /\ ReturnedSetNow' = ReturnedSetNow]_vars

\* words added to a custom-only language of the default manager after
\* get_stopwords returned its set, and words in the other manager
C30_Witness ==
    /\ query = XX
    /\ answer = {THE}
    /\ XX \in DOMAIN manager_custom
    /\ manager_custom[XX] = {THE, CAT}
    /\ XX \in DOMAIN other_custom
====
